---- MODULE Spec2Model ----
(***************************************************************************)
(* prime_factor_guesser (src/src/main.rs): prime-candidate generation with *)
(* an optional on-disk cache, followed by a data-parallel guess search     *)
(* that updates a shared "found" flag and a shared "best match" cell.      *)
(*                                                                         *)
(* Fixed-width integers are modelled with a scaled word: Rust's u64 is a   *)
(* word of WordBits bits, so u64::MAX is 2^WordBits - 1 and one BigUint    *)
(* u64 digit holds a value modulo 2^WordBits.  BigUint values are plain    *)
(* integers.  The 1,000,000 trials are scaled to total_iterations.         *)
(***************************************************************************)
EXTENDS Integers, Sequences, FiniteSets, TLC

\* ------------------------------------------------------------------ bounds
WordBits == 4
total_iterations == 2
MaxN == 10

RECURSIVE Pow(_, _)
Pow(b, e) == IF e = 0 THEN 1 ELSE b * Pow(b, e - 1)

\* 2^WordBits: the radix of one u64 digit of a BigUint
Word == Pow(2, WordBits)
\* u64::MAX
U64_MAX == Word - 1

\* ------------------------------------------------- BigUint helper functions
\* BigUint::from_bytes_be: big-endian base-256 value, 0 for the empty buffer
RECURSIVE from_bytes_be(_)
from_bytes_be(buffer) ==
  IF Len(buffer) = 0 THEN 0
  ELSE 256 * from_bytes_be(SubSeq(buffer, 1, Len(buffer) - 1)) + buffer[Len(buffer)]

\* BigUint::sqrt: the truncated integer square root
RECURSIVE SqrtFrom(_, _)
SqrtFrom(x, r) == IF (r + 1) * (r + 1) > x THEN r ELSE SqrtFrom(x, r + 1)

sqrt(x) == SqrtFrom(x, 0)

\* BigUint::to_u64_digits: the u64 digits, least significant first; zero has
\* no digits at all
RECURSIVE to_u64_digits(_)
to_u64_digits(x) ==
  IF x = 0 THEN << >> ELSE << x % Word >> \o to_u64_digits(x \div Word)

\* ------------------------------------------------------ cache file contents
\* A file's text is a sequence of one-character strings.
DigitChars == << "0", "1", "2", "3", "4", "5", "6", "7", "8", "9" >>

IsDigit(c) == \E d \in 1..10 : DigitChars[d] = c

DigitVal(c) == (CHOOSE d \in 1..10 : DigitChars[d] = c) - 1

\* the decimal rendering of an unsigned integer (itoa)
RECURSIVE Decimal(_)
Decimal(v) ==
  IF v < 10 THEN << DigitChars[v + 1] >>
  ELSE Decimal(v \div 10) \o << DigitChars[(v % 10) + 1] >>

\* a writer that separates the elements with blanks
RECURSIVE JoinElemsBlank(_)
JoinElemsBlank(s) ==
  IF Len(s) = 0 THEN << >>
  ELSE IF Len(s) = 1 THEN Decimal(s[1])
  ELSE Decimal(s[1]) \o << " " >> \o JoinElemsBlank(Tail(s))

\* serde_json::to_string(&[u64]): compact JSON array
RECURSIVE JoinElems(_)
JoinElems(s) ==
  IF Len(s) = 0 THEN << >>
  ELSE IF Len(s) = 1 THEN Decimal(s[1])
  ELSE Decimal(s[1]) \o << "," >> \o JoinElems(Tail(s))

to_string(s) == << "[" >> \o JoinElems(s) \o << "]" >>

\* serde_json::from_str::<Vec<u64>>: results are [ok, val]
Err == [ok |-> FALSE, val |-> << >>]

Ok(v) == [ok |-> TRUE, val |-> v]

RECURSIVE SkipWs(_, _)
SkipWs(s, i) == IF i <= Len(s) /\ s[i] = " " THEN SkipWs(s, i + 1) ELSE i

\* digits of one number starting at i, accumulated in acc; [ok, val, next]
RECURSIVE ParseDigits(_, _, _)
ParseDigits(s, i, acc) ==
  IF i <= Len(s) /\ IsDigit(s[i])
  THEN LET v == 10 * acc + DigitVal(s[i])
       IN IF v > U64_MAX THEN [ok |-> FALSE, val |-> 0, next |-> i]
          ELSE ParseDigits(s, i + 1, v)
  ELSE [ok |-> TRUE, val |-> acc, next |-> i]

\* a JSON unsigned integer: "0" alone or a digit run without leading zero
ParseNumber(s, i) ==
  IF i > Len(s) \/ ~IsDigit(s[i]) THEN [ok |-> FALSE, val |-> 0, next |-> i]
  ELSE IF s[i] = "0"
       THEN IF i + 1 <= Len(s) /\ IsDigit(s[i + 1])
            THEN [ok |-> FALSE, val |-> 0, next |-> i]
            ELSE [ok |-> TRUE, val |-> 0, next |-> i + 1]
       ELSE ParseDigits(s, i, 0)

\* the elements after "[": first says no element has been read yet
RECURSIVE ParseElems(_, _, _, _)
ParseElems(s, i0, acc, first) ==
  LET i == SkipWs(s, i0) IN
  IF i > Len(s) THEN Err
  ELSE IF s[i] = "]"
       THEN IF SkipWs(s, i + 1) > Len(s) THEN Ok(acc) ELSE Err
  ELSE IF first
       THEN LET r == ParseNumber(s, i)
            IN IF r.ok THEN ParseElems(s, r.next, Append(acc, r.val), FALSE)
               ELSE Err
  ELSE IF s[i] = ","
       THEN LET r == ParseNumber(s, SkipWs(s, i + 1))
            IN IF r.ok THEN ParseElems(s, r.next, Append(acc, r.val), FALSE)
               ELSE Err
  ELSE Err

from_str(s) ==
  LET i == SkipWs(s, 1)
  IN IF i <= Len(s) /\ s[i] = "[" THEN ParseElems(s, i + 1, << >>, TRUE)
     ELSE Err

\* ------------------------------------------------------- prime generation
\* (*num as f64).sqrt() as u64: the conversions are exact on the modelled
\* range, so the result is the truncated square root
f64_sqrt_as_u64(num) == sqrt(num)

\* the closure with the "+ 1" of the upper bound left out
filter_predicate_no_plus_one(num) ==
  \A i \in 2..(f64_sqrt_as_u64(num) - 1) : num % i # 0

\* the filter closure of line 47: no i in 2 .. sqrt(num) divides num
filter_predicate(num) ==
  \A i \in 2..((f64_sqrt_as_u64(num) + 1) - 1) : num % i # 0

\* collect(): the kept elements of 2..=n in the order of the range
collect(n, keep) ==
  IF n < 2 THEN << >>
  ELSE SelectSeq([k \in 1..(n - 1) |-> k + 1], LAMBDA num : num \in keep)

\* the whole of lines 44-48 as one function of n
filter_collect(n) == collect(n, {num \in 2..n : filter_predicate(num)})

\* a reader that loses the last element of the array
read_primes_from_cache_short(fs, ioerr) ==
  IF ~fs.exists \/ ioerr THEN Err
  ELSE LET r == from_str(fs.data)
       IN IF r.ok /\ Len(r.val) > 0
          THEN Ok(SubSeq(r.val, 1, Len(r.val) - 1)) ELSE r

\* read_primes_from_cache: open, read_to_string, from_str; ioerr is an I/O
\* failure of open or read on an existing file
read_primes_from_cache(fs, ioerr) ==
  IF ~fs.exists \/ ioerr THEN Err ELSE from_str(fs.data)

\* ------------------------------------------------------------ guess states
EmptyMap == [p \in {} |-> 0]

Range(s) == {s[k] : k \in 1..Len(s)}

\* primes.iter().map(|&prime| (prime, 0)).collect()
zero_powers(ps) == [p \in Range(ps) |-> 0]

\* compute_product: fold of prime^power over the map, from BigUint::one()
RECURSIVE ProductOver(_, _)
ProductOver(m, keys) ==
  IF keys = {} THEN 1
  ELSE LET p == CHOOSE q \in keys : TRUE
       IN Pow(p, m[p]) * ProductOver(m, keys \ {p})

compute_product(prime_powers_) == ProductOver(prime_powers_, DOMAIN prime_powers_)

\* lines 155-160: raise the exponent of the first prime of the sequence
increment_first(ps, m) ==
  IF Len(ps) = 0 THEN m ELSE [m EXCEPT ![ps[1]] = @ + 1]

\* a comparison that accepts every product not above the target
exact_match_le(prod, num) == prod <= num

\* line 148
exact_match(prod, num) == prod = num

\* lines 164-168
distance(prod, num) == IF prod > num THEN prod - num ELSE num - prod

\* the comparison of line 169 turned round
update_best_farther(bm, dist, guess) ==
  IF dist > bm.distance THEN [distance |-> dist, guess |-> guess] ELSE bm

\* lines 169-172: replace both fields iff strictly closer
update_best(bm, dist, guess) ==
  IF dist < bm.distance THEN [distance |-> dist, guess |-> guess] ELSE bm

\* line 119
initial_best(pp) == [distance |-> U64_MAX, guess |-> pp]

\* the two branches of the final if exchanged
report_form_swapped(found_) == IF found_ THEN "best" ELSE "found"

\* lines 183-199: which of the two report forms is printed
report_form(found_) == IF found_ THEN "found" ELSE "best"

\* --------------------------------------------------------------- the inputs
MaxTarget == 12

RECURSIVE to_bytes_be(_)
to_bytes_be(t) ==
  IF t < 256 THEN << t >> ELSE to_bytes_be(t \div 256) \o << t % 256 >>

Targets ==
  (0..MaxTarget) \cup {Word, Word + 1, 121, Word * Word,
                       (Word + 1) * (Word + 1), (Word + 2) * (Word + 2)}

Unreadable == [readable |-> FALSE, bytes |-> << >>]

InputFiles ==
  {[readable |-> TRUE, bytes |-> to_bytes_be(t)] : t \in Targets}
  \cup {[readable |-> TRUE, bytes |-> b] : b \in {<< >>, <<0, 0>>, <<0, 4>>}}
  \cup {Unreadable}

NoFile == [exists |-> FALSE, data |-> << >>]

InitialCaches ==
  {NoFile}
  \cup {[exists |-> TRUE, data |-> d] :
          d \in {<< >>, << "[", "4", "]" >>, << "[", " ", "3", ",", "2", "]" >>}}

Trials == 1..total_iterations

\* ---------------------------------------------------------------- the state
VARIABLES
  cache_fs,            \* the cache file: [exists, data]; survives a run
  file,                \* args.file: [readable, bytes]
  cache_arg,           \* args.cache is Some
  pc,                  \* position of the main thread
  abort,               \* panic message, "" while running
  number,              \* Target
  sqrt_u64,            \* the bound handed to generate_primes_up_to
  read_result,         \* Result of read_primes_from_cache, "none" if not called
  write_result,        \* Result of write_primes_to_cache: "none", "ok", "err"
  tested,              \* parallel filter: num -> "pending" | "keep" | "drop"
  gen_primes,          \* the generator's local primes
  primes,              \* main's primes
  prime_powers,        \* the shared initial guess
  best_match,          \* Mutex<(BigUint, HashMap)>: [distance, guess]
  found,               \* Mutex<bool>
  found_lock,          \* holder of the found mutex, 0 when free
  best_lock,           \* holder of the best_match mutex, 0 when free
  tpc,                 \* position of each trial
  local_prime_powers,  \* per trial
  product,             \* per trial
  current_distance,    \* per trial, -1 until computed
  report               \* what was printed: [form, factors]

vars == << cache_fs, file, cache_arg, pc, abort, number, sqrt_u64, read_result,
           write_result, tested, gen_primes, primes, prime_powers, best_match,
           found, found_lock, best_lock, tpc, local_prime_powers, product,
           current_distance, report >>

gen_vars == << read_result, write_result, tested, gen_primes, primes >>

search_vars == << prime_powers, best_match, found, found_lock, best_lock, tpc,
                  local_prime_powers, product, current_distance >>

trial_locals == << tpc, local_prime_powers, product, current_distance >>

NoResult == [ok |-> FALSE, val |-> << "none" >>]

NoBest == [distance |-> 0, guess |-> EmptyMap]

NoReport == [form |-> "none", factors |-> EmptyMap]

\* everything a fresh process starts with, for inputs f and c
Fresh(f, c) ==
  /\ file = f
  /\ cache_arg = c
  /\ pc = "start"
  /\ abort = ""
  /\ number = 0
  /\ sqrt_u64 = 0
  /\ read_result = NoResult
  /\ write_result = "none"
  /\ tested = EmptyMap
  /\ gen_primes = << >>
  /\ primes = << >>
  /\ prime_powers = EmptyMap
  /\ best_match = NoBest
  /\ found = FALSE
  /\ found_lock = 0
  /\ best_lock = 0
  /\ tpc = [i \in Trials |-> "idle"]
  /\ local_prime_powers = [i \in Trials |-> EmptyMap]
  /\ product = [i \in Trials |-> 0]
  /\ current_distance = [i \in Trials |-> -1]
  /\ report = NoReport

Init ==
  /\ cache_fs \in InitialCaches
  /\ \E f \in InputFiles, c \in BOOLEAN : Fresh(f, c)

\* ---------------------------------------------------------------- main, I/O
\* lines 96-105
ReadInput ==
  /\ pc = "start"
  /\ IF file.readable
     THEN /\ number' = from_bytes_be(file.bytes)
          /\ pc' = "bound"
          /\ abort' = abort
     ELSE /\ pc' = "panic"
          /\ abort' = "Failed to open the file"
          /\ number' = number
  /\ UNCHANGED << cache_fs, file, cache_arg, sqrt_u64, gen_vars, search_vars,
                  report >>

\* lines 107-108: indexing digit 0 of the square root
ComputeBound ==
  /\ pc = "bound"
  /\ LET digits == to_u64_digits(sqrt(number))
     IN IF Len(digits) = 0
        THEN /\ pc' = "panic"
             /\ abort' = "index out of bounds"
             /\ sqrt_u64' = sqrt_u64
        ELSE /\ sqrt_u64' = digits[1]
             /\ pc' = "generate"
             /\ abort' = abort
  /\ UNCHANGED << cache_fs, file, cache_arg, number, gen_vars, search_vars,
                  report >>

\* ------------------------------------------------- generate_primes_up_to
\* lines 28-33: try the cache first
GenReadCache ==
  /\ pc = "generate"
  /\ IF cache_arg
     THEN \E ioerr \in BOOLEAN :
            LET r == read_primes_from_cache(cache_fs, ioerr)
            IN /\ read_result' = r
               /\ IF r.ok
                  THEN /\ primes' = r.val
                       /\ pc' = "generated"
                       /\ tested' = tested
                  ELSE /\ primes' = primes
                       /\ pc' = "filter"
                       /\ tested' = [num \in 2..sqrt_u64 |-> "pending"]
     ELSE /\ read_result' = read_result
          /\ primes' = primes
          /\ pc' = "filter"
          /\ tested' = [num \in 2..sqrt_u64 |-> "pending"]
  /\ UNCHANGED << cache_fs, file, cache_arg, abort, number, sqrt_u64,
                  write_result, gen_primes, search_vars, report >>

\* line 47: one worker tests one number of the range
FilterTest(num) ==
  /\ pc = "filter"
  /\ num \in DOMAIN tested
  /\ tested[num] = "pending"
  /\ tested' = [tested EXCEPT
                  ![num] = IF filter_predicate(num) THEN "keep" ELSE "drop"]
  /\ UNCHANGED << cache_fs, file, cache_arg, pc, abort, number, sqrt_u64,
                  read_result, write_result, gen_primes, primes, search_vars,
                  report >>

\* lines 48-56: collect in range order, then return or go on to the write
Collect ==
  /\ pc = "filter"
  /\ \A num \in DOMAIN tested : tested[num] # "pending"
  /\ LET v == collect(sqrt_u64, {num \in DOMAIN tested : tested[num] = "keep"})
     IN /\ gen_primes' = v
        /\ IF cache_arg
           THEN /\ pc' = "write"
                /\ primes' = primes
           ELSE /\ pc' = "generated"
                /\ primes' = v
  /\ tested' = EmptyMap
  /\ UNCHANGED << cache_fs, file, cache_arg, abort, number, sqrt_u64,
                  read_result, write_result, search_vars, report >>

\* the write with its Result discarded instead of expect()ed
GenWriteCacheIgnored ==
  /\ pc = "write"
  /\ LET data == to_string(gen_primes)
     IN \/ /\ cache_fs' = [exists |-> TRUE, data |-> data]
           /\ write_result' = "ok"
        \/ /\ \/ cache_fs' = cache_fs
              \/ \E k \in 0..(Len(data) - 1) :
                   cache_fs' = [exists |-> TRUE, data |-> SubSeq(data, 1, k)]
           /\ write_result' = "err"
  /\ primes' = gen_primes
  /\ pc' = "generated"
  /\ UNCHANGED << file, cache_arg, abort, number, sqrt_u64, read_result, tested,
                  gen_primes, search_vars, report >>

\* write_primes_to_cache (lines 67-72) and the expect of line 53.
\* File::create may fail and leave the file alone; write_all may fail after
\* create truncated the file, leaving any proper prefix of the data.
GenWriteCache ==
  /\ pc = "write"
  /\ LET data == to_string(gen_primes)
     IN \/ /\ cache_fs' = [exists |-> TRUE, data |-> data]
           /\ write_result' = "ok"
           /\ primes' = gen_primes
           /\ pc' = "generated"
           /\ abort' = abort
        \/ /\ \/ cache_fs' = cache_fs
              \/ \E k \in 0..(Len(data) - 1) :
                   cache_fs' = [exists |-> TRUE, data |-> SubSeq(data, 1, k)]
           /\ write_result' = "err"
           /\ primes' = primes
           /\ pc' = "panic"
           /\ abort' = "Failed to write primes to cache"
  /\ UNCHANGED << file, cache_arg, number, sqrt_u64, read_result, tested,
                  gen_primes, search_vars, report >>

\* ------------------------------------------------------------- the search
\* lines 118-131
InitSearch ==
  /\ pc = "generated"
  /\ prime_powers' = zero_powers(primes)
  /\ best_match' = initial_best(zero_powers(primes))
  /\ found' = FALSE
  /\ pc' = "search"
  /\ UNCHANGED << cache_fs, file, cache_arg, abort, number, sqrt_u64, gen_vars,
                  found_lock, best_lock, trial_locals, report >>

\* the product taken after the increment instead of before it
TrialStartIncrementFirst(i) ==
  /\ pc = "search"
  /\ tpc[i] = "idle"
  /\ local_prime_powers' =
       [local_prime_powers EXCEPT ![i] = increment_first(primes, prime_powers)]
  /\ product' = [product EXCEPT
                   ![i] = compute_product(increment_first(primes, prime_powers))]
  /\ tpc' = [tpc EXCEPT ![i] = "lock_found_check"]
  /\ UNCHANGED << cache_fs, file, cache_arg, pc, abort, number, sqrt_u64,
                  gen_vars, prime_powers, best_match, found, found_lock,
                  best_lock, current_distance, report >>

\* a trial that starts from the best guess so far instead of the shared one
TrialStartFromBest(i) ==
  /\ pc = "search"
  /\ tpc[i] = "idle"
  /\ local_prime_powers' = [local_prime_powers EXCEPT ![i] = best_match.guess]
  /\ product' = [product EXCEPT ![i] = compute_product(best_match.guess)]
  /\ tpc' = [tpc EXCEPT ![i] = "lock_found_check"]
  /\ UNCHANGED << cache_fs, file, cache_arg, pc, abort, number, sqrt_u64,
                  gen_vars, prime_powers, best_match, found, found_lock,
                  best_lock, current_distance, report >>

\* lines 138-139: clone the shared guess and compute its product
TrialStart(i) ==
  /\ pc = "search"
  /\ tpc[i] = "idle"
  /\ local_prime_powers' = [local_prime_powers EXCEPT ![i] = prime_powers]
  /\ product' = [product EXCEPT ![i] = compute_product(prime_powers)]
  /\ tpc' = [tpc EXCEPT ![i] = "lock_found_check"]
  /\ UNCHANGED << cache_fs, file, cache_arg, pc, abort, number, sqrt_u64,
                  gen_vars, prime_powers, best_match, found, found_lock,
                  best_lock, current_distance, report >>

\* line 142
LockFoundCheck(i) ==
  /\ tpc[i] = "lock_found_check"
  /\ found_lock = 0
  /\ found_lock' = i
  /\ tpc' = [tpc EXCEPT ![i] = "check"]
  /\ UNCHANGED << cache_fs, file, cache_arg, pc, abort, number, sqrt_u64,
                  gen_vars, prime_powers, best_match, found, best_lock,
                  local_prime_powers, product, current_distance, report >>

\* the guard of line 142 living on past its block when the trial goes on
CheckFoundKeepsLock(i) ==
  /\ tpc[i] = "check"
  /\ found_lock' = IF found THEN 0 ELSE found_lock
  /\ tpc' = [tpc EXCEPT ![i] = IF found THEN "done" ELSE "compare"]
  /\ UNCHANGED << cache_fs, file, cache_arg, pc, abort, number, sqrt_u64,
                  gen_vars, prime_powers, best_match, found, best_lock,
                  local_prime_powers, product, current_distance, report >>

\* lines 143-146: return if found, the guard is dropped either way
CheckFound(i) ==
  /\ tpc[i] = "check"
  /\ found_lock' = 0
  /\ tpc' = [tpc EXCEPT ![i] = IF found THEN "done" ELSE "compare"]
  /\ UNCHANGED << cache_fs, file, cache_arg, pc, abort, number, sqrt_u64,
                  gen_vars, prime_powers, best_match, found, best_lock,
                  local_prime_powers, product, current_distance, report >>

\* the increment applied to the shared guess instead of the trial's clone
CompareSharedIncrement(i) ==
  /\ tpc[i] = "compare"
  /\ IF exact_match(product[i], number)
     THEN /\ tpc' = [tpc EXCEPT ![i] = "lock_found_set"]
          /\ local_prime_powers' = local_prime_powers
          /\ prime_powers' = prime_powers
     ELSE /\ tpc' = [tpc EXCEPT ![i] = "lock_best"]
          /\ prime_powers' = increment_first(primes, prime_powers)
          /\ local_prime_powers' =
               [local_prime_powers EXCEPT
                  ![i] = increment_first(primes, prime_powers)]
  /\ UNCHANGED << cache_fs, file, cache_arg, pc, abort, number, sqrt_u64,
                  gen_vars, best_match, found, found_lock,
                  best_lock, product, current_distance, report >>

\* line 148 and, on the else branch, lines 155-161
Compare(i) ==
  /\ tpc[i] = "compare"
  /\ IF exact_match(product[i], number)
     THEN /\ tpc' = [tpc EXCEPT ![i] = "lock_found_set"]
          /\ local_prime_powers' = local_prime_powers
     ELSE /\ tpc' = [tpc EXCEPT ![i] = "lock_best"]
          /\ local_prime_powers' =
               [local_prime_powers EXCEPT
                  ![i] = increment_first(primes, local_prime_powers[i])]
  /\ UNCHANGED << cache_fs, file, cache_arg, pc, abort, number, sqrt_u64,
                  gen_vars, prime_powers, best_match, found, found_lock,
                  best_lock, product, current_distance, report >>

\* line 150
LockFoundSet(i) ==
  /\ tpc[i] = "lock_found_set"
  /\ found_lock = 0
  /\ found_lock' = i
  /\ tpc' = [tpc EXCEPT ![i] = "set"]
  /\ UNCHANGED << cache_fs, file, cache_arg, pc, abort, number, sqrt_u64,
                  gen_vars, prime_powers, best_match, found, best_lock,
                  local_prime_powers, product, current_distance, report >>

\* the else of line 154 lost: a matching trial goes on to the update
SetFoundFallsThrough(i) ==
  /\ tpc[i] = "set"
  /\ found' = TRUE
  /\ found_lock' = 0
  /\ tpc' = [tpc EXCEPT ![i] = "lock_best"]
  /\ UNCHANGED << cache_fs, file, cache_arg, pc, abort, number, sqrt_u64,
                  gen_vars, prime_powers, best_match, best_lock,
                  local_prime_powers, product, current_distance, report >>

\* the flag flipped instead of set
SetFoundToggle(i) ==
  /\ tpc[i] = "set"
  /\ found' = ~found
  /\ found_lock' = 0
  /\ tpc' = [tpc EXCEPT ![i] = "done"]
  /\ UNCHANGED << cache_fs, file, cache_arg, pc, abort, number, sqrt_u64,
                  gen_vars, prime_powers, best_match, best_lock,
                  local_prime_powers, product, current_distance, report >>

\* lines 151-153, 175-177
SetFound(i) ==
  /\ tpc[i] = "set"
  /\ found' = TRUE
  /\ found_lock' = 0
  /\ tpc' = [tpc EXCEPT ![i] = "done"]
  /\ UNCHANGED << cache_fs, file, cache_arg, pc, abort, number, sqrt_u64,
                  gen_vars, prime_powers, best_match, best_lock,
                  local_prime_powers, product, current_distance, report >>

\* line 163
LockBest(i) ==
  /\ tpc[i] = "lock_best"
  /\ best_lock = 0
  /\ best_lock' = i
  /\ tpc' = [tpc EXCEPT ![i] = "update"]
  /\ UNCHANGED << cache_fs, file, cache_arg, pc, abort, number, sqrt_u64,
                  gen_vars, prime_powers, best_match, found, found_lock,
                  local_prime_powers, product, current_distance, report >>

\* the best_match guard never dropped
UpdateBestKeepsLock(i) ==
  /\ tpc[i] = "update"
  /\ LET d == distance(product[i], number)
     IN /\ current_distance' = [current_distance EXCEPT ![i] = d]
        /\ best_match' = update_best(best_match, d, local_prime_powers[i])
  /\ best_lock' = best_lock
  /\ tpc' = [tpc EXCEPT ![i] = "done"]
  /\ UNCHANGED << cache_fs, file, cache_arg, pc, abort, number, sqrt_u64,
                  gen_vars, prime_powers, found, found_lock,
                  local_prime_powers, product, report >>

\* lines 164-177: distance of the product computed at line 139, conditional
\* replacement, guard dropped at the end of the block
UpdateBest(i) ==
  /\ tpc[i] = "update"
  /\ LET d == distance(product[i], number)
     IN /\ current_distance' = [current_distance EXCEPT ![i] = d]
        /\ best_match' = update_best(best_match, d, local_prime_powers[i])
  /\ best_lock' = 0
  /\ tpc' = [tpc EXCEPT ![i] = "done"]
  /\ UNCHANGED << cache_fs, file, cache_arg, pc, abort, number, sqrt_u64,
                  gen_vars, prime_powers, found, found_lock,
                  local_prime_powers, product, report >>

Trial(i) ==
  \/ TrialStart(i)
  \/ LockFoundCheck(i)
  \/ CheckFound(i)
  \/ Compare(i)
  \/ LockFoundSet(i)
  \/ SetFound(i)
  \/ LockBest(i)
  \/ UpdateBest(i)

\* lines 180-199: for_each has returned, print one of the two forms
Report ==
  /\ pc = "search"
  /\ \A i \in Trials : tpc[i] = "done"
  /\ report' = [form |-> report_form(found), factors |-> best_match.guess]
  /\ pc' = "done"
  /\ UNCHANGED << cache_fs, file, cache_arg, abort, number, sqrt_u64, gen_vars,
                  search_vars >>

\* the process has ended; the program is run again on the same file system
NewRun ==
  /\ pc \in {"done", "panic"}
  /\ cache_fs' = cache_fs
  /\ file' \in InputFiles
  /\ cache_arg' \in BOOLEAN
  /\ pc' = "start"
  /\ abort' = ""
  /\ number' = 0
  /\ sqrt_u64' = 0
  /\ read_result' = NoResult
  /\ write_result' = "none"
  /\ tested' = EmptyMap
  /\ gen_primes' = << >>
  /\ primes' = << >>
  /\ prime_powers' = EmptyMap
  /\ best_match' = NoBest
  /\ found' = FALSE
  /\ found_lock' = 0
  /\ best_lock' = 0
  /\ tpc' = [i \in Trials |-> "idle"]
  /\ local_prime_powers' = [i \in Trials |-> EmptyMap]
  /\ product' = [i \in Trials |-> 0]
  /\ current_distance' = [i \in Trials |-> -1]
  /\ report' = NoReport

Next ==
  \/ ReadInput
  \/ ComputeBound
  \/ GenReadCache
  \/ \E num \in 2..U64_MAX : FilterTest(num)
  \/ Collect
  \/ GenWriteCache
  \/ InitSearch
  \/ \E i \in Trials : Trial(i)
  \/ Report
  \/ NewRun

Spec == Init /\ [][Next]_vars

TypeOK ==
  /\ pc \in {"start", "bound", "generate", "filter", "write", "generated",
             "search", "done", "panic"}
  /\ found \in BOOLEAN
  /\ found_lock \in 0..total_iterations
  /\ best_lock \in 0..total_iterations

\* --------------------------------------------- one run, fairly scheduled
\* One process from start to exit.  main runs on, and the thread pool gives
\* every dispatched trial a worker that keeps running it.
RunNext ==
  \/ ReadInput
  \/ ComputeBound
  \/ GenReadCache
  \/ \E num \in 2..U64_MAX : FilterTest(num)
  \/ Collect
  \/ GenWriteCache
  \/ InitSearch
  \/ \E i \in Trials : Trial(i)
  \/ Report

MainStep ==
  \/ ReadInput
  \/ ComputeBound
  \/ GenReadCache
  \/ \E num \in 2..U64_MAX : FilterTest(num)
  \/ Collect
  \/ GenWriteCache
  \/ InitSearch
  \/ Report

Fairness ==
  /\ WF_vars(MainStep)
  /\ \A i \in Trials : WF_vars(Trial(i))

SpecRun == Init /\ [][RunNext]_vars /\ Fairness

\* ------------------------------------- the generator on its own, any bound
\* main up to the return of generate_primes_up_to, on the input n * n for
\* every bound n
GenInit ==
  /\ cache_fs \in InitialCaches
  /\ \E n \in 0..MaxN, c \in BOOLEAN :
       Fresh([readable |-> TRUE, bytes |-> to_bytes_be(n * n)], c)

GenNext ==
  \/ ReadInput
  \/ ComputeBound
  \/ GenReadCache
  \/ \E num \in 2..U64_MAX : FilterTest(num)
  \/ Collect
  \/ GenWriteCache

SpecGen == GenInit /\ [][GenNext]_vars

\* ------------------------------------------------------ reference notions
Composites(n) == {a * b : a, b \in 2..n}

ReferencePrimes(n) == (2..n) \ Composites(n)

IsPrime(p) == p >= 2 /\ \A d \in 2..(p - 1) : p % d # 0

StrictlyAscending(s) == \A j \in 1..(Len(s) - 1) : s[j] < s[j + 1]

RECURSIVE Multiplicity(_, _)
Multiplicity(t, p) ==
  IF t > 0 /\ t % p = 0 THEN 1 + Multiplicity(t \div p, p) ELSE 0

CandidatePrimes(t) == ReferencePrimes(sqrt(t))

Factorization(t) == [p \in CandidatePrimes(t) |-> Multiplicity(t, p)]

IsCandidateProduct(t) ==
  t >= 1 /\ ProductOver(Factorization(t), CandidatePrimes(t)) = t

Searching == pc \in {"search", "done"}

Generated == pc \in {"generated", "search", "done"}

\* ------------------------------------------------------------- the claims
\* C1: for every Target that is a product of powers of its candidate primes
\* (the primes <= floor(sqrt(Target))), the search ends with FoundFlag true
\* and the reported guess holds exactly the exponents of the factorization.
C1_ExactFactorizationReported ==
  (pc = "done" /\ primes = filter_collect(sqrt(number))
     /\ Range(primes) = CandidatePrimes(number) /\ IsCandidateProduct(number))
    => /\ report.form = "found"
       /\ report.factors = Factorization(number)

\* C2: for every prime Target with the candidates being the primes up to its
\* square root, FoundFlag stays false in every interleaving, every trial runs
\* to its end, and the report printed is the best-approximation form.
C2_PrimeTargetNeverFound ==
  (Searching /\ IsPrime(number) /\ primes = filter_collect(sqrt(number)))
    => /\ ~found
       /\ \A i \in Trials : tpc[i] \notin {"lock_found_set", "set"}
       /\ pc = "done" =>
            /\ report.form = "best"
            /\ \A i \in Trials : tpc[i] = "done" /\ current_distance[i] >= 0

C2_Witness ==
  /\ pc = "done"
  /\ number = 7
  /\ primes = << 2 >>
  /\ report.form = "best"

\* C3: whenever the "Prime factors found" form is printed, the printed map
\* is the guess of a trial whose product equalled Target, and the product
\* of prime^exponent over the printed map equals Target.
C3_FoundReportIsExact ==
  report.form = "found"
    => /\ compute_product(report.factors) = number
       /\ \E i \in Trials :
            product[i] = number /\ local_prime_powers[i] = report.factors

C3_Witness ==
  /\ pc = "done"
  /\ report.form = "found"
  /\ primes # << >>
  /\ \A i \in Trials : tpc[i] = "done"

\* C4: once a trial has updated BestMatch, the stored distance is the
\* absolute difference between the product of the stored guess and Target.
C4_BestMatchFieldsAgree ==
  (Searching /\ best_match # initial_best(prime_powers))
    => best_match.distance = distance(compute_product(best_match.guess), number)

\* C5: when the search ends without an exact match, BestMatch.distance is
\* the smallest absolute difference computed by any trial of the run.
C5_BestDistanceIsMinimum ==
  (pc = "done" /\ ~found)
    => /\ \E i \in Trials : best_match.distance = current_distance[i]
       /\ \A i \in Trials :
            current_distance[i] >= 0 => best_match.distance <= current_distance[i]

\* C6: for every bound n >= 2 and no cache, the generator returns a strictly
\* ascending sequence that starts with 2 and holds exactly the primes <= n,
\* whatever the order in which the parallel filter tested the numbers.
C6_GeneratedPrimesAreExact ==
  (pc = "generated" /\ ~cache_arg /\ sqrt_u64 >= 2)
    => /\ StrictlyAscending(primes)
       /\ primes[1] = 2
       /\ Range(primes) = ReferencePrimes(sqrt_u64)
       /\ Len(primes) = Cardinality(ReferencePrimes(sqrt_u64))

C6_Witness ==
  /\ pc = "generated"
  /\ ~cache_arg
  /\ sqrt_u64 >= 9
  /\ primes = << 2, 3, 5, 7 >>

\* C7: when the cache loads and parses, the generator returns the cached
\* sequence as it is for every bound, never compares it with the bound and
\* never writes the cache.
C7_CacheHitReturnedVerbatim ==
  (Generated /\ cache_arg /\ read_result.ok)
    => /\ cache_fs.exists
       /\ from_str(cache_fs.data) = Ok(primes)
       /\ write_result = "none"

\* a run for a small bound that got the sequence an earlier run cached for 11
C7_Witness ==
  /\ pc = "generated"
  /\ cache_arg
  /\ read_result.ok
  /\ sqrt_u64 = 3
  /\ primes = << 2, 3, 5, 7, 11 >>

\* C8: after a cache miss whose write succeeded, the cache holds exactly the
\* returned sequence: reading the cache again gives the same elements in
\* the same order.
C8_CacheRoundTrip ==
  write_result = "ok"
    => /\ Generated
       /\ cache_fs.exists
       /\ cache_fs.data = to_string(primes)
       /\ read_primes_from_cache(cache_fs, FALSE) = Ok(primes)

C8_Witness ==
  /\ write_result = "ok"
  /\ pc = "generated"
  /\ primes = << 2, 3, 5, 7, 11 >>

\* C9: a cache read or parse failure is not fatal, the generator goes on to
\* compute the sequence of the bound as without a cache; a cache write
\* failure aborts, no sequence is returned and no trial ever runs.
C9_CacheFailureOutcomes ==
  /\ (cache_arg /\ ~read_result.ok /\ Generated)
       => primes = filter_collect(sqrt_u64) /\ write_result = "ok"
  /\ (cache_arg /\ ~read_result.ok /\ pc = "panic" /\ file.readable)
       => write_result = "err" \/ abort = "index out of bounds"
  /\ write_result = "err"
       => /\ pc = "panic"
          /\ abort = "Failed to write primes to cache"
          /\ gen_primes = filter_collect(sqrt_u64)
          /\ primes = << >>
          /\ report = NoReport
          /\ \A i \in Trials : tpc[i] = "idle"

\* the read failed, the computation went on, then the write failed
C9_Witness ==
  /\ pc = "panic"
  /\ write_result = "err"
  /\ read_result = Err
  /\ cache_fs.exists
  /\ Len(gen_primes) >= 2

\* C10: with a readable input file, whatever Target it holds, and no cache
\* path, the program never aborts.
C10_ReadableInputNeverAborts ==
  (file.readable /\ ~cache_arg) => pc # "panic"

\* C11: under fair scheduling every trial of a search finishes and main
\* prints its report; the run then rests in exactly one of the two terminal
\* states, Found or Exhausted, with both mutexes free, and never leaves it.
C11_SearchTerminates ==
  /\ (pc = "search") ~> (pc = "done")
  /\ [](pc = "done" =>
          /\ \A i \in Trials : tpc[i] = "done"
          /\ found_lock = 0 /\ best_lock = 0
          /\ (report.form = "found") # (report.form = "best")
          /\ (report.form = "found") <=> found)
  /\ [][pc = "done" => pc' = "done"]_vars

C11_Witness ==
  /\ pc = "done"
  /\ report.form = "best"
  /\ \A i \in Trials : tpc[i] = "done" /\ current_distance[i] >= 0

\* C12: during the search BestMatch.distance never increases: every step
\* leaves BestMatch as it is or replaces it by one of strictly smaller distance.
C12_DistanceNeverIncreases ==
  [][pc = "search" =>
       \/ best_match' = best_match
       \/ best_match'.distance < best_match.distance]_vars

C12_Witness ==
  /\ pc = "search"
  /\ best_match.distance < U64_MAX
  /\ \E i \in Trials : tpc[i] = "update"

\* C13: once FoundFlag is true no step of the search changes BestMatch,
\* trials that read the flag as false before it was set included.
C13_NoUpdateAfterFound ==
  [][(pc = "search" /\ found) => best_match' = best_match]_vars

\* the flag is set while another trial that read it as false is in flight
C13_Witness ==
  /\ pc = "search"
  /\ found
  /\ \E i \in Trials : tpc[i] \in {"compare", "lock_found_set"}

\* C14: FoundFlag is false until the search, no step of the search turns it
\* from true to false, and it turns true only in the step of a trial whose
\* product equals Target.
C14_FoundMonotonic ==
  /\ [](~Searching => ~found)
  /\ [][pc = "search" =>
          /\ found => found'
          /\ (~found /\ found') =>
               \E i \in Trials :
                 /\ tpc[i] = "set"
                 /\ tpc'[i] = "done"
                 /\ product[i] = number]_vars

\* the flag is true and a second trial is about to set it again
C14_Witness ==
  /\ pc = "search"
  /\ found
  /\ \E i \in Trials : tpc[i] = "set"

\* C15: in every trial the increment precedes the evaluation: the product a
\* trial compares with Target and measures its distance from is the product
\* of the all-zero guess with the first candidate's exponent raised to 1,
\* hence the first candidate prime when there is a candidate.
C15_ProductOfIncrementedGuess ==
  \A i \in Trials :
    (Searching /\ tpc[i] \notin {"idle"})
      => /\ product[i] = compute_product(increment_first(primes, prime_powers))
         /\ Len(primes) > 0 => product[i] = primes[1]

\* C16: the bound handed to the prime generator is floor(sqrt(Target)) for
\* every Target >= 1, also when the square root does not fit one u64.
C16_BoundIsSquareRoot ==
  (pc \in {"generate", "filter", "write", "generated", "search", "done"}
     /\ number >= 1)
    => sqrt_u64 = sqrt(number)

\* C17: no trial ever holds the FoundFlag mutex and the BestMatch mutex at
\* the same time.
C17_NeverBothLocks ==
  \A i \in Trials : ~(found_lock = i /\ best_lock = i)

\* two workers, each holding one of the two mutexes
C17_Witness ==
  \E i, j \in Trials :
    /\ i # j
    /\ found_lock = i /\ tpc[i] = "check"
    /\ best_lock = j /\ tpc[j] = "update"

\* C18: throughout the search the candidate sequence and the shared initial
\* guess stay as they were set up, every candidate at exponent 0; a trial
\* increments its own copy only, so every trial starts from the same
\* all-zero guess over the same keys.
C18_SharedGuessUnchanged ==
  /\ [](Searching =>
          /\ prime_powers = zero_powers(primes)
          /\ \A i \in Trials :
               /\ tpc[i] # "idle" =>
                    DOMAIN local_prime_powers[i] = DOMAIN prime_powers
               /\ tpc[i] \in {"lock_found_check", "check", "compare"} =>
                    local_prime_powers[i] = zero_powers(primes))
  /\ [][pc = "search" => (primes' = primes /\ prime_powers' = prime_powers)]_vars

\* a trial starts from the all-zero guess after another raised its own copy
C18_Witness ==
  /\ pc = "search"
  /\ \E i, j \in Trials :
       /\ tpc[i] = "done"
       /\ local_prime_powers[i] # prime_powers
       /\ tpc[j] = "lock_found_check"
       /\ local_prime_powers[j] = prime_powers

\* C19: for every Target, every candidate sequence, generated or loaded
\* from a cache, and every T >= 1, the search ends with FoundFlag true
\* exactly when Target = 1.
C19_FoundIffTargetIsOne ==
  pc = "done" => (found <=> number = 1)

\* Target 4 with the cached candidate 4: the candidate alone is the target,
\* and the search still ends without a match
C19_Witness ==
  /\ pc = "done"
  /\ number = 4
  /\ primes = << 4 >>
  /\ ~found

\* the outcome of a run as a function of Target and the candidates alone
ExpectedFound(num) == num = 1

ExpectedBest(num, ps) ==
  IF num = 1 THEN [distance |-> U64_MAX, guess |-> zero_powers(ps)]
  ELSE IF distance(1, num) < U64_MAX
       THEN [distance |-> distance(1, num),
             guess |-> increment_first(ps, zero_powers(ps))]
       ELSE [distance |-> U64_MAX, guess |-> zero_powers(ps)]

\* C20: the final report does not depend on the schedule: for a Target and
\* a candidate sequence, every interleaving of the trials ends with the same
\* FoundFlag and the same BestMatch, and so prints the same form and map.
C20_ReportScheduleIndependent ==
  pc = "done"
    => /\ found = ExpectedFound(number)
       /\ best_match = ExpectedBest(number, primes)
       /\ report = [form |-> IF ExpectedFound(number) THEN "found" ELSE "best",
                    factors |-> ExpectedBest(number, primes).guess]

\* both trials went through the update, in either order
C20_Witness ==
  /\ pc = "done"
  /\ primes = << 2, 3 >>
  /\ best_match.distance < U64_MAX
  /\ \A i \in Trials : current_distance[i] = best_match.distance
====
